---- MODULE Spec2Model ----
(***************************************************************************)
(* Model of the BigCommerce -> Avalara product sync pipeline.              *)
(*                                                                         *)
(*   Updater     scripts/update-products.js  (src/README.md 247-508)       *)
(*   Pagination  utils.js paginateBigCommerce / paginateAvalara            *)
(*   Fetchers    scripts/fetch-bc-products.js, fetch-avalara-items.js      *)
(*   Reconciler  scripts/reconcile-products.js (src/README.md 509-701)     *)
(*                                                                         *)
(* Strings that the code splits on ':' are modelled as the sequence of     *)
(* their colon-free segments, so "500: Bad" is <<"500", " Bad">>.          *)
(* A custom-field list is modelled as a bag of field names (name -> how    *)
(* many fields of the list carry that name); only its length and the       *)
(* names in it are read by the code.                                       *)
(* Strings that the code trims or lower-cases are sequences of characters. *)
(***************************************************************************)
EXTENDS Integers, Sequences, FiniteSets, TLC

\* ------------------------------------------------------------------ bounds
MaxRows == 2
MaxRequests == 4
MaxItems == 2
MaxProducts == 2

\* ------------------------------------------------------- program constants
CustomFieldLimit == 50
SleepMs == 100
BcLimit == 250
AvalaraTop == 100

SyncFieldName == "avalara_sync"
SyncFieldValue == "1"

\* ------------------------------------------------------------ input domains
ProductIds == {1, 2}
FieldNames == {"avalara_sync", "Avalara_Sync", "color"}

Fields(sync, near, other) ==
  [n \in FieldNames |-> CASE n = "avalara_sync" -> sync
                          [] n = "Avalara_Sync" -> near
                          [] OTHER -> other]

EmptyFields == Fields(0, 0, 0)

\* Lists the platform may hold for a product before the run.
FieldLists ==
  { EmptyFields,            \* no custom field at all
    Fields(0, 1, 48),       \* 49 fields, one named like the marker but for case
    Fields(1, 0, 49),       \* 50 fields, the marker among them
    Fields(0, 0, 50) }      \* 50 fields, no marker

Row(id, ex, md) ==
  [product_id |-> id, sku |-> id, exists_in_avalara |-> ex, is_missing_data |-> md]

\* Rows products-to-update.csv may hold: an absent product, an incomplete
\* one, and a hand-edited row that flags nothing.
InputRows == { Row(1, "no", "no"), Row(2, "yes", "yes"), Row(1, "yes", "no") }

RECURSIVE SeqsUpTo(_, _)
SeqsUpTo(S, n) ==
  IF n = 0 THEN { <<>> }
  ELSE LET shorter == SeqsUpTo(S, n - 1)
       IN shorter \cup { Append(s, x) : s \in { t \in shorter : Len(t) = n - 1 }, x \in S }

\* Failures axios can raise: with a response (status, optional body message)
\* or without one (timeout, connection reset).
HttpError(status, dataMessage, message) ==
  [hasResponse |-> TRUE, status |-> status, dataMessage |-> dataMessage, message |-> message]

NetworkError(message) ==
  [hasResponse |-> FALSE, status |-> "", dataMessage |-> <<>>, message |-> message]

NotFound == HttpError("404", <<>>, <<"Request failed with status code 404">>)

FetchErrors ==
  { NotFound,
    HttpError("500", <<>>, <<"Request failed with status code 500">>),
    NetworkError(<<"timeout of 30000ms exceeded">>) }

CreateErrors ==
  { HttpError("422", <<"Unprocessable", " name is invalid">>,
              <<"Request failed with status code 422">>),
    NetworkError(<<"timeout of 30000ms exceeded">>) }

\* The value standing for "the request was answered 2xx".
NoError == NetworkError(<< "" >>)

VARIABLES
  fileExists,      \* output/products-to-update.csv is on disk
  inputRows,       \* its rows
  platform,        \* product id -> custom fields the platform holds
  pc,              \* position of updateProducts / the main script
  run,             \* which invocation of the script this is
  needing,         \* productsNeedingUpdate
  i,               \* loop index (1-based)
  existingFields,  \* existingFields of the current iteration
  syncLog, successCount, errorCount, skippedCount,
  logFile,         \* product-sync-log.csv: whether written, and its rows
  summaryFile,     \* update-summary.txt: whether written, and its figures
  thrown,          \* message of the error updateProducts rejected with
  exitCode,        \* process exit status, -1 while running
  events,          \* requests and sleeps made, in order
  firstLog,        \* syncLog of the previous invocation
  pgApi,           \* which pagination helper runs
  pgPos,           \* its cursor: skip (Avalara) or page (BigCommerce)
  pgAll,           \* allResults
  pgRequests,      \* cursor of every request issued, in order
  pgPages,         \* length of every page returned, -1 for a failed request
  pgDone,          \* the helper has returned
  server,          \* what the listing endpoint holds: slot -> raw SKU / item code
  fetPc,           \* position of the fetcher / its main script
  outFile,         \* bc-products.csv or avalara-items.csv: whether written, rows
  invalidProducts, \* invalidProducts of fetchBigCommerceProducts
  fetExit,         \* exit status of the fetcher process, -1 while running
  avalaraFileExists, \* output/avalara-items.csv is on disk
  bcFileExists,    \* output/bc-products.csv is on disk
  avalaraItems,    \* rows of avalara-items.csv
  bcProducts,      \* rows of bc-products.csv
  recPc,           \* position of reconcileProducts / its main script
  recReads,        \* files the reconciler has read, in order
  productsToUpdate, \* productsToUpdate of reconcileProducts
  recCounts,       \* missingInAvalara, missingData, complete
  recOutFile,      \* products-to-update.csv: whether written, rows
  recSummary,      \* reconciliation-summary.txt: whether written, figures
  recThrown,       \* message of the error reconcileProducts rejected with
  recExit          \* exit status of the reconciler process, -1 while running

updVars == << fileExists, inputRows, platform, pc, run, needing, i, existingFields,
              syncLog, successCount, errorCount, skippedCount, logFile, summaryFile,
              thrown, exitCode, events, firstLog >>

pgVars == << pgApi, pgPos, pgAll, pgRequests, pgPages, pgDone >>

fetVars == << server, fetPc, outFile, invalidProducts, fetExit >>

recVars == << avalaraFileExists, bcFileExists, avalaraItems, bcProducts, recPc, recReads,
              productsToUpdate, recCounts, recOutFile, recSummary, recThrown, recExit >>

vars == << updVars, pgVars, fetVars, recVars >>

NoLogFile == [written |-> FALSE, rows |-> <<>>]

NoSummaryFile ==
  [written |-> FALSE, total |-> 0, success |-> 0, errors |-> 0, skipped |-> 0,
   breakdown |-> <<>>]

\* ----------------------------------------------------------- pure helpers
RECURSIVE SumOver(_, _)
SumOver(f, S) ==
  IF S = {} THEN 0
  ELSE LET x == CHOOSE y \in S : TRUE IN f[x] + SumOver(f, S \ {x})

FieldCount(fields) == SumOver(fields, DOMAIN fields)

NameMatches(name, fieldName) == name = fieldName

\* Variant: a field counts only from its second occurrence on.
HasSyncFieldTwice(fields) ==
  \E n \in DOMAIN fields : fields[n] > 1 /\ NameMatches(n, SyncFieldName)

HasSyncField(fields) ==
  \E n \in DOMAIN fields : fields[n] > 0 /\ NameMatches(n, SyncFieldName)

\* Variant: the limit test is strict.
AtFieldLimitStrict(fields) == FieldCount(fields) > CustomFieldLimit

AtFieldLimit(fields) == FieldCount(fields) >= CustomFieldLimit

NeedsUpdate(product) ==
  product.exists_in_avalara = "no" \/ product.is_missing_data = "yes"

ErrorMessage(error) ==
  IF error.hasResponse
  THEN << error.status >> \o
       (IF error.dataMessage # <<>>
        THEN << " " \o error.dataMessage[1] >> \o Tail(error.dataMessage)
        ELSE << " " \o error.message[1] >> \o Tail(error.message))
  ELSE error.message

LogEntry(product, status, message, added) ==
  [product_id |-> product.product_id, sku |-> product.sku,
   exists_in_avalara |-> product.exists_in_avalara,
   is_missing_data |-> product.is_missing_data,
   status |-> status, error_message |-> message, custom_field_added |-> added]

\* Variant: a 404 is rethrown like any other failure.
FetchResultRethrow404(response, held) ==
  IF response = NoError THEN [ok |-> TRUE, fields |-> held, error |-> NoError]
  ELSE [ok |-> FALSE, fields |-> EmptyFields, error |-> response]

\* getExistingCustomFields: what the call returns or throws for a response.
FetchResult(response, held) ==
  IF response = NoError THEN [ok |-> TRUE, fields |-> held, error |-> NoError]
  ELSE IF response.hasResponse /\ response.status = "404"
       THEN [ok |-> TRUE, fields |-> EmptyFields, error |-> NoError]
       ELSE [ok |-> FALSE, fields |-> EmptyFields, error |-> response]

ErrorType(message) == IF message[1] # "" THEN message[1] ELSE "Unknown"

\* The reduce of the summary template: error type -> number of error entries.
ErrorBreakdown(log) ==
  LET errs == { k \in 1..Len(log) : log[k].status = "error" }
      types == { ErrorType(log[k].error_message) : k \in errs }
  IN [ kind |-> "object",
       counts |-> [ t \in types |->
                     Cardinality({ k \in errs : ErrorType(log[k].error_message) = t }) ] ]

\* Only an array has a map method; on any other value the call throws.
HasMapMethod(value) == value.kind = "array"

\* Variant: the limit check is made before the marker check.
ClassifyLimitFirst(fields) ==
  IF AtFieldLimit(fields) THEN "limit"
  ELSE IF HasSyncField(fields) THEN "skipped"
  ELSE "create"

\* The branch the loop body takes on the fetched list: marker check first,
\* then the limit check, else the create call.
Classify(fields) ==
  IF HasSyncField(fields) THEN "skipped"
  ELSE IF AtFieldLimit(fields) THEN "limit"
  ELSE "create"

Event(kind, product, arg, response, fields) ==
  [kind |-> kind, run |-> run, row |-> i, product_id |-> product.product_id,
   arg |-> arg, response |-> response, fields |-> fields]

\* Loop header of the for statement: the test i < length.
LoopPc(idx) == IF idx <= Len(needing) THEN "fetch" ELSE "writeLog"

\* Variant: the catch block leaves the loop.
AfterCatchAbort(idx) == Len(needing) + 1

\* Variant: the catch block repeats the row.
AfterCatchRetry(idx) == idx

\* Index the loop goes on with when the catch block (or a continue) is left.
AfterCatch(idx) == idx + 1

\* ------------------------------------------------------------- the Updater
UpdInit ==
  /\ fileExists \in BOOLEAN
  /\ inputRows \in (IF fileExists THEN SeqsUpTo(InputRows, MaxRows) ELSE { <<>> })
  /\ platform \in [ProductIds -> FieldLists]
  /\ pc = "start"
  /\ run = 1
  /\ needing = <<>>
  /\ i = 0
  /\ existingFields = EmptyFields
  /\ syncLog = <<>>
  /\ successCount = 0
  /\ errorCount = 0
  /\ skippedCount = 0
  /\ logFile = NoLogFile
  /\ summaryFile = NoSummaryFile
  /\ thrown = << "" >>
  /\ exitCode = -1
  /\ events = <<>>
  /\ firstLog = <<>>

PgIdle ==
  /\ pgApi = "none"
  /\ pgPos = 0
  /\ pgAll = <<>>
  /\ pgRequests = <<>>
  /\ pgPages = <<>>
  /\ pgDone = TRUE

\* updateProducts up to the loop: file check, read, filter, early return.
Start ==
  /\ pc = "start"
  /\ IF ~fileExists
     THEN /\ pc' = "rejected"
          /\ thrown' = << "Products to update file not found",
                          " ./output/products-to-update.csv. Please run reconcile-products.js first." >>
          /\ UNCHANGED << needing, i >>
     ELSE LET filtered == SelectSeq(inputRows, NeedsUpdate)
          IN /\ needing' = filtered
             /\ thrown' = thrown
             /\ IF Len(filtered) = 0
                THEN pc' = "resolved" /\ i' = i
                ELSE pc' = "fetch" /\ i' = 1
  /\ syncLog' = <<>>
  /\ successCount' = 0
  /\ errorCount' = 0
  /\ skippedCount' = 0
  /\ UNCHANGED << fileExists, inputRows, platform, run, existingFields, logFile,
                  summaryFile, exitCode, events, firstLog, pgVars, fetVars, recVars >>

\* One iteration up to addCustomField: GET, marker check, limit check, catch.
Fetch(response) ==
  /\ pc = "fetch"
  /\ LET product == needing[i]
         got == FetchResult(response, platform[product.product_id])
         branch == IF got.ok THEN Classify(got.fields) ELSE "catch"
     IN /\ events' = Append(events,
                            Event("get", product, "custom-fields", response, got.fields))
        /\ CASE branch = "catch" ->
                /\ syncLog' = Append(syncLog,
                                     LogEntry(product, "error", ErrorMessage(got.error), "no"))
                /\ errorCount' = errorCount + 1
                /\ pc' = LoopPc(AfterCatch(i))
                /\ i' = AfterCatch(i)
                /\ UNCHANGED << skippedCount, existingFields >>
             [] branch = "skipped" ->
                /\ syncLog' = Append(syncLog,
                                     LogEntry(product, "skipped",
                                              << "Custom field already exists" >>, "no"))
                /\ skippedCount' = skippedCount + 1
                /\ pc' = LoopPc(i + 1)
                /\ i' = i + 1
                /\ UNCHANGED << errorCount, existingFields >>
             [] branch = "limit" ->
                /\ syncLog' = Append(syncLog,
                                     LogEntry(product, "error",
                                              << "Maximum custom fields limit reached (50)" >>,
                                              "no"))
                /\ errorCount' = errorCount + 1
                /\ pc' = LoopPc(i + 1)
                /\ i' = i + 1
                /\ UNCHANGED << skippedCount, existingFields >>
             [] OTHER ->
                /\ existingFields' = got.fields
                /\ pc' = "create"
                /\ UNCHANGED << syncLog, errorCount, skippedCount, i >>
  /\ UNCHANGED << fileExists, inputRows, platform, run, needing, successCount, logFile,
                  summaryFile, thrown, exitCode, firstLog, pgVars, fetVars, recVars >>

\* addCustomField and what follows it in the try block, or the catch block.
Create(response) ==
  /\ pc = "create"
  /\ LET product == needing[i]
     IN /\ events' = Append(events,
                            Event("post", product, << SyncFieldName, SyncFieldValue >>,
                                  response, EmptyFields))
        /\ IF response = NoError
           THEN /\ platform' = [platform EXCEPT ![product.product_id][SyncFieldName] = @ + 1]
                /\ syncLog' = Append(syncLog, LogEntry(product, "success", << "" >>, "yes"))
                /\ successCount' = successCount + 1
                /\ pc' = "sleep"
                /\ UNCHANGED << errorCount, i >>
           ELSE /\ syncLog' = Append(syncLog,
                                     LogEntry(product, "error", ErrorMessage(response), "no"))
                /\ errorCount' = errorCount + 1
                /\ pc' = LoopPc(AfterCatch(i))
                /\ i' = AfterCatch(i)
                /\ UNCHANGED << platform, successCount >>
  /\ UNCHANGED << fileExists, inputRows, run, needing, existingFields, skippedCount,
                  logFile, summaryFile, thrown, exitCode, firstLog, pgVars, fetVars, recVars >>

\* await sleep(100), then the loop's i++.
Sleep ==
  /\ pc = "sleep"
  /\ events' = Append(events, Event("sleep", needing[i], SleepMs, NoError, EmptyFields))
  /\ pc' = LoopPc(i + 1)
  /\ i' = i + 1
  /\ UNCHANGED << fileExists, inputRows, platform, run, needing, existingFields, syncLog,
                  successCount, errorCount, skippedCount, logFile, summaryFile, thrown,
                  exitCode, firstLog, pgVars, fetVars, recVars >>

\* csvWriter.writeRecords(syncLog)
WriteLog ==
  /\ pc = "writeLog"
  /\ logFile' = [written |-> TRUE, rows |-> syncLog]
  /\ pc' = "summary"
  /\ UNCHANGED << fileExists, inputRows, platform, run, needing, i, existingFields, syncLog,
                  successCount, errorCount, skippedCount, summaryFile, thrown, exitCode,
                  events, firstLog, pgVars, fetVars, recVars >>

\* The summary template, fs.writeFileSync and the return; or the catch/rethrow.
WriteSummary ==
  /\ pc = "summary"
  /\ LET breakdown == ErrorBreakdown(syncLog)
     IN IF HasMapMethod(breakdown)
        THEN /\ summaryFile' = [written |-> TRUE, total |-> Len(needing),
                                success |-> successCount, errors |-> errorCount,
                                skipped |-> skippedCount, breakdown |-> breakdown.counts]
             /\ pc' = "resolved"
             /\ thrown' = thrown
        ELSE /\ thrown' = << "syncLog.filter(...).reduce(...).map is not a function" >>
             /\ pc' = "rejected"
             /\ summaryFile' = summaryFile
  /\ UNCHANGED << fileExists, inputRows, platform, run, needing, i, existingFields, syncLog,
                  successCount, errorCount, skippedCount, logFile, exitCode, events,
                  firstLog, pgVars, fetVars, recVars >>

\* .then of the main script
ExitOk ==
  /\ pc = "resolved"
  /\ exitCode' = 0
  /\ pc' = "exit"
  /\ UNCHANGED << fileExists, inputRows, platform, run, needing, i, existingFields, syncLog,
                  successCount, errorCount, skippedCount, logFile, summaryFile, thrown,
                  events, firstLog, pgVars, fetVars, recVars >>

\* .catch of the main script
ExitFail ==
  /\ pc = "rejected"
  /\ exitCode' = 1
  /\ pc' = "exit"
  /\ UNCHANGED << fileExists, inputRows, platform, run, needing, i, existingFields, syncLog,
                  successCount, errorCount, skippedCount, logFile, summaryFile, thrown,
                  events, firstLog, pgVars, fetVars, recVars >>

\* The script is invoked again on the same file against the same platform.
Rerun ==
  /\ pc = "exit"
  /\ run = 1
  /\ run' = 2
  /\ firstLog' = syncLog
  /\ pc' = "start"
  /\ exitCode' = -1
  /\ thrown' = << "" >>
  /\ i' = 0
  /\ needing' = <<>>
  /\ existingFields' = EmptyFields
  /\ syncLog' = <<>>
  /\ successCount' = 0
  /\ errorCount' = 0
  /\ skippedCount' = 0
  /\ UNCHANGED << fileExists, inputRows, platform, logFile, summaryFile, events, pgVars, fetVars, recVars >>

\* No fetcher runs.
FetIdle ==
  /\ server = <<>>
  /\ fetPc = "idle"
  /\ outFile = [written |-> FALSE, rows |-> <<>>]
  /\ invalidProducts = <<>>
  /\ fetExit = -1

NoCounts == [missingInAvalara |-> 0, missingData |-> 0, complete |-> 0]

NoRecSummary ==
  [written |-> FALSE, totalProducts |-> 0, totalAvalaraItems |-> 0,
   counts |-> NoCounts, productsToUpdate |-> 0]

\* No reconciler runs.
RecIdle ==
  /\ avalaraFileExists = FALSE
  /\ bcFileExists = FALSE
  /\ avalaraItems = <<>>
  /\ bcProducts = <<>>
  /\ recPc = "idle"
  /\ recReads = <<>>
  /\ productsToUpdate = <<>>
  /\ recCounts = NoCounts
  /\ recOutFile = [written |-> FALSE, rows |-> <<>>]
  /\ recSummary = NoRecSummary
  /\ recThrown = << "" >>
  /\ recExit = -1

Init == UpdInit /\ PgIdle /\ FetIdle /\ RecIdle

\* Two invocations: flagged rows only, products that can take the marker.
FlaggedRows == { r \in InputRows : NeedsUpdate(r) }

TwiceLists == { EmptyFields, Fields(0, 1, 48) }

InitTwice ==
  /\ UpdInit
  /\ PgIdle
  /\ FetIdle
  /\ RecIdle
  /\ fileExists
  /\ \A k \in 1..Len(inputRows) : inputRows[k] \in FlaggedRows
  /\ \A p \in ProductIds : platform[p] \in TwiceLists

Next ==
  \/ Start
  \/ \E response \in FetchErrors \cup { NoError } : Fetch(response)
  \/ \E response \in CreateErrors \cup { NoError } : Create(response)
  \/ Sleep
  \/ WriteLog
  \/ WriteSummary
  \/ ExitOk
  \/ ExitFail

Spec == Init /\ [][Next]_vars

\* Answers drawn in the two-invocation runs: one failure of each request.
Timeout == NetworkError(<< "timeout of 30000ms exceeded" >>)

NextTwice ==
  \/ Start
  \/ \E response \in { NoError, NotFound, Timeout } : Fetch(response)
  \/ \E response \in { NoError, Timeout } : Create(response)
  \/ Sleep
  \/ WriteLog
  \/ WriteSummary
  \/ ExitOk
  \/ ExitFail
  \/ Rerun

SpecTwice == InitTwice /\ [][NextTwice]_vars

\* ------------------------------------------------------ pagination helpers
\* Page lengths a listing endpoint may answer with.
AvalaraPageLens == { 0, 1, AvalaraTop - 1, AvalaraTop, AvalaraTop + 1 }
BcPageLens == { 0, BcLimit - 1, BcLimit, BcLimit + 1 }

\* The records of the k-th response: distinct, in the order returned.
PageData(k, len) == [ j \in 1..len |-> << k, j >> ]

Page(len) == [ok |-> TRUE, len |-> len]
Failed == [ok |-> FALSE, len |-> 0]

\* Variant: a page of exactly the requested size ends the loop too.
AvalaraAtEndInclusive(len) == len <= AvalaraTop

AvalaraAtEnd(len) == len < AvalaraTop
AvalaraNextSkip(skip) == skip + AvalaraTop

BcAtEnd(len) == len < BcLimit
BcNextPage(page) == page + 1

UpdIdle ==
  /\ fileExists = FALSE
  /\ inputRows = <<>>
  /\ platform = [p \in ProductIds |-> EmptyFields]
  /\ pc = "idle"
  /\ run = 0
  /\ needing = <<>>
  /\ i = 0
  /\ existingFields = EmptyFields
  /\ syncLog = <<>>
  /\ successCount = 0
  /\ errorCount = 0
  /\ skippedCount = 0
  /\ logFile = NoLogFile
  /\ summaryFile = NoSummaryFile
  /\ thrown = << "" >>
  /\ exitCode = -1
  /\ events = <<>>
  /\ firstLog = <<>>

PgInit ==
  /\ pgApi \in { "avalara", "bigcommerce" }
  /\ pgPos = (IF pgApi = "avalara" THEN 0 ELSE 1)
  /\ pgAll = <<>>
  /\ pgRequests = <<>>
  /\ pgPages = <<>>
  /\ pgDone = FALSE

\* One iteration of paginateAvalara's while loop.
PaginateAvalara(response) ==
  /\ pgApi = "avalara"
  /\ ~pgDone
  /\ Len(pgRequests) < MaxRequests
  /\ pgRequests' = Append(pgRequests, [cursor |-> pgPos, size |-> AvalaraTop])
  /\ IF response.ok
     THEN /\ pgAll' = pgAll \o PageData(Len(pgRequests) + 1, response.len)
          /\ pgPages' = Append(pgPages, response.len)
          /\ IF AvalaraAtEnd(response.len)
             THEN pgDone' = TRUE /\ pgPos' = pgPos
             ELSE pgDone' = FALSE /\ pgPos' = AvalaraNextSkip(pgPos)
     ELSE /\ pgPages' = Append(pgPages, -1)
          /\ pgDone' = TRUE
          /\ UNCHANGED << pgAll, pgPos >>
  /\ UNCHANGED << pgApi, updVars, fetVars, recVars >>

\* One iteration of paginateBigCommerce's while loop.
PaginateBigCommerce(response) ==
  /\ pgApi = "bigcommerce"
  /\ ~pgDone
  /\ Len(pgRequests) < MaxRequests
  /\ pgRequests' = Append(pgRequests, [cursor |-> pgPos, size |-> BcLimit])
  /\ IF response.ok
     THEN /\ pgAll' = pgAll \o PageData(Len(pgRequests) + 1, response.len)
          /\ pgPages' = Append(pgPages, response.len)
          /\ IF BcAtEnd(response.len)
             THEN pgDone' = TRUE /\ pgPos' = pgPos
             ELSE pgDone' = FALSE /\ pgPos' = BcNextPage(pgPos)
     ELSE /\ pgPages' = Append(pgPages, -1)
          /\ pgDone' = TRUE
          /\ UNCHANGED << pgAll, pgPos >>
  /\ UNCHANGED << pgApi, updVars, fetVars, recVars >>

InitPaginate == UpdIdle /\ PgInit /\ FetIdle /\ RecIdle

NextPaginate ==
  \/ \E response \in { Page(n) : n \in AvalaraPageLens } \cup { Failed } :
       PaginateAvalara(response)
  \/ \E response \in { Page(n) : n \in BcPageLens } \cup { Failed } :
       PaginateBigCommerce(response)

SpecPaginate == InitPaginate /\ [][NextPaginate]_vars

\* ------------------------------------------------------------ the fetchers
\* JavaScript values a raw record may carry in a field.
Str(chars) == [type |-> "string", chars |-> chars, num |-> 0]
Num(n) == [type |-> "number", chars |-> <<>>, num |-> n]
Undefined == [type |-> "undefined", chars |-> <<>>, num |-> 0]

Truthy(v) ==
  \/ v.type = "string" /\ v.chars # <<>>
  \/ v.type = "number" /\ v.num # 0

\* a || b
OrElse(a, b) == IF Truthy(a) THEN a ELSE b

IsSpace(c) == c \in { " ", "\t" }

RECURSIVE TrimStart(_)
TrimStart(chars) ==
  IF chars # <<>> /\ IsSpace(Head(chars)) THEN TrimStart(Tail(chars)) ELSE chars

RECURSIVE TrimEnd(_)
TrimEnd(chars) ==
  IF chars # <<>> /\ IsSpace(chars[Len(chars)])
  THEN TrimEnd(SubSeq(chars, 1, Len(chars) - 1))
  ELSE chars

\* String.prototype.trim
Trim(chars) == TrimEnd(TrimStart(chars))

\* Variant: the SKU is not trimmed before its length is taken.
IsValidSKUNoTrim(sku) ==
  Truthy(sku) /\ sku.type = "string" /\ Len(sku.chars) > 0

IsValidSKU(sku) ==
  Truthy(sku) /\ sku.type = "string" /\ Len(Trim(sku.chars)) > 0

\* Values the listing may carry as a product's sku / an item's itemCode.
SkuValues ==
  { Undefined, Str(<<>>), Str(<< " " >>), Num(7),
    Str(<< "a" >>), Str(<< " ", "A", " " >>) }

Slots == { 1, 2 }

SlotOf(j) == ((j - 1) % Cardinality(Slots)) + 1

\* The raw record the endpoint returned as j-th of its k-th response.
RawProduct(rec) ==
  [id |-> rec, sku |-> server[SlotOf(rec[2])], name |-> Str(<< "n" >>)]

RawItem(rec) ==
  [itemCode |-> server[SlotOf(rec[2])],
   itemGroup |-> (IF rec[2] % 2 = 0 THEN Str(<< "G" >>) ELSE Undefined),
   category |-> Str(<< "C" >>)]

\* products.map(...) of fetchBigCommerceProducts
ProcessProduct(product) ==
  [id |-> product.id,
   sku |-> OrElse(product.sku, Str(<<>>)),
   name |-> OrElse(product.name, Str(<<>>))]

\* items.map(...) of fetchAvalaraItems
ProcessItem(item) ==
  [itemCode |-> OrElse(item.itemCode, Str(<<>>)),
   itemGroup |-> OrElse(item.itemGroup, Str(<<>>)),
   category |-> OrElse(item.category, Str(<<>>))]

ValidProduct(product) == IsValidSKU(product.sku)
InvalidProduct(product) == ~IsValidSKU(product.sku)

\* Variant: a failed page request is rethrown to the caller.
PaginateRethrows(all, pages) ==
  [threw |-> (pages # <<>> /\ pages[Len(pages)] = -1), results |-> all]

\* What the pagination helper hands to its caller: the catch block breaks
\* out of the loop, the helper always returns allResults.
PaginateReturns(all, pages) == [threw |-> FALSE, results |-> all]

\* What the endpoint may hold: any value in the odd positions of a page, an
\* absent, a blank or a plain value in the even ones.
ServerContents ==
  { f \in [Slots -> SkuValues] : f[2] \in { Undefined, Str(<< " " >>), Str(<< "a" >>) } }

FetInit ==
  /\ server \in ServerContents
  /\ fetPc = "paginating"
  /\ outFile = [written |-> FALSE, rows |-> <<>>]
  /\ invalidProducts = <<>>
  /\ fetExit = -1

\* fetchAvalaraItems from the return of paginateAvalara on.
FetchAvalaraItems ==
  /\ fetPc = "paginating"
  /\ pgApi = "avalara"
  /\ pgDone
  /\ LET ret == PaginateReturns(pgAll, pgPages)
         processedItems == [n \in 1..Len(ret.results) |-> ProcessItem(RawItem(ret.results[n]))]
     IN IF ret.threw
        THEN fetPc' = "rejected" /\ outFile' = outFile
        ELSE fetPc' = "resolved" /\ outFile' = [written |-> TRUE, rows |-> processedItems]
  /\ UNCHANGED << server, invalidProducts, fetExit, updVars, pgVars, recVars >>

\* fetchBigCommerceProducts from the return of paginateBigCommerce on.
FetchBigCommerceProducts ==
  /\ fetPc = "paginating"
  /\ pgApi = "bigcommerce"
  /\ pgDone
  /\ LET ret == PaginateReturns(pgAll, pgPages)
         processedProducts ==
           [n \in 1..Len(ret.results) |-> ProcessProduct(RawProduct(ret.results[n]))]
     IN IF ret.threw
        THEN fetPc' = "rejected" /\ UNCHANGED << outFile, invalidProducts >>
        ELSE /\ fetPc' = "resolved"
             /\ invalidProducts' = SelectSeq(processedProducts, InvalidProduct)
             /\ outFile' = [written |-> TRUE,
                            rows |-> SelectSeq(processedProducts, ValidProduct)]
  /\ UNCHANGED << server, fetExit, updVars, pgVars, recVars >>

\* .then / .catch of the fetcher's main script
FetMain ==
  /\ fetPc \in { "resolved", "rejected" }
  /\ fetExit' = (IF fetPc = "resolved" THEN 0 ELSE 1)
  /\ fetPc' = "exit"
  /\ UNCHANGED << server, outFile, invalidProducts, updVars, pgVars, recVars >>

InitFetch == UpdIdle /\ PgInit /\ FetInit /\ RecIdle

NextFetch ==
  \/ \E response \in { Page(n) : n \in AvalaraPageLens } \cup { Failed } :
       PaginateAvalara(response)
  \/ \E response \in { Page(n) : n \in BcPageLens } \cup { Failed } :
       PaginateBigCommerce(response)
  \/ FetchAvalaraItems
  \/ FetchBigCommerceProducts
  \/ FetMain

SpecFetch == InitFetch /\ [][NextFetch]_vars

\* ---------------------------------------------------------- the Reconciler
\* String.prototype.toLowerCase on the letters the inputs use.
LowerChar(c) ==
  CASE c = "A" -> "a" [] c = "B" -> "b" [] c = "C" -> "c"
    [] c = "K" -> "k" [] c = "S" -> "s" [] c = "U" -> "u"
    [] OTHER -> c

ToLowerCase(chars) == [ n \in 1..Len(chars) |-> LowerChar(chars[n]) ]

\* x.trim().toLowerCase()
Normalize(chars) == ToLowerCase(Trim(chars))

Item(code, group, category) ==
  [itemCode |-> code, itemGroup |-> group, category |-> category]

\* Rows avalara-items.csv may hold.
ItemRows ==
  { Item(<< "s", "k", "u", "1" >>, << "G" >>, << "C" >>),
    Item(<< " ", "S", "K", "U", "1", " " >>, << "W", "i", "d", "g", "e", "t", "s" >>, <<>>),
    Item(<< "s", "k", "u", "2" >>, << " " >>, << "C" >>),
    Item(<< "a", "b", "c", "-", "1" >>, <<>>, <<>>),
    Item(<< " ", " " >>, << "G" >>, << "C" >>) }

Product(id, sku) == [id |-> id, sku |-> sku, name |-> << "n" >>]

\* Rows bc-products.csv may hold: the Catalog Fetcher writes valid SKUs only.
ProductRows ==
  { Product(1, << "S", "K", "U", "1" >>),
    Product(2, << "S", "K", "U", "2" >>),
    Product(3, << " ", "A", "B", "C", "-", "1", " " >>),
    Product(4, << "s", "k", "u", "3" >>) }

\* Variant: an entry already in the map is kept.
MapSetKeepFirst(map, key, item) ==
  [ k \in DOMAIN map \cup { key } |-> IF k \in DOMAIN map THEN map[k] ELSE item ]

\* avalaraMap.set(key, item)
MapSet(map, key, item) ==
  [ k \in DOMAIN map \cup { key } |-> IF k = key THEN item ELSE map[k] ]

\* Variant: the item code is lower-cased but not trimmed.
ItemKeyNoTrim(item) == ToLowerCase(item.itemCode)

\* Key an item is stored under.
ItemKey(item) == Normalize(item.itemCode)

\* The forEach that fills avalaraMap, over the first n items.
RECURSIVE BuildMap(_, _)
BuildMap(items, n) ==
  IF n = 0 THEN << >>
  ELSE LET map == BuildMap(items, n - 1)
           item == items[n]
       IN IF item.itemCode # <<>> /\ Trim(item.itemCode) # <<>>
          THEN MapSet(map, ItemKey(item), item)
          ELSE map

\* !value || value.trim() === ''
IsBlank(value) == value = <<>> \/ Trim(value) = <<>>

MissingFields(item) ==
  (IF IsBlank(item.itemGroup) THEN << "itemGroup" >> ELSE <<>>) \o
  (IF IsBlank(item.category) THEN << "category" >> ELSE <<>>)

\* Variant: a product absent from the registry is marked missing data too.
AbsentResultMarked(product) ==
  [product_id |-> product.id, sku |-> product.sku, name |-> product.name,
   exists_in_avalara |-> "no", is_missing_data |-> "yes", missing_fields |-> <<>>,
   avalara_item_group |-> <<>>, avalara_category |-> <<>>,
   reason |-> << "Product not registered in Avalara" >>]

\* The result row of a product that is not in the map.
AbsentResult(product) ==
  [product_id |-> product.id, sku |-> product.sku, name |-> product.name,
   exists_in_avalara |-> "no", is_missing_data |-> "no", missing_fields |-> <<>>,
   avalara_item_group |-> <<>>, avalara_category |-> <<>>,
   reason |-> << "Product not registered in Avalara" >>]

\* The result row of a product whose item lacks a field.
IncompleteResult(product, item, missing) ==
  [product_id |-> product.id, sku |-> product.sku, name |-> product.name,
   exists_in_avalara |-> "yes", is_missing_data |-> "yes", missing_fields |-> missing,
   avalara_item_group |-> item.itemGroup, avalara_category |-> item.category,
   reason |-> << "Missing required fields" >> \o missing]

\* Variant: complete products are pushed as well.
CompareKeepsComplete(acc, product, map) ==
  LET sku == Normalize(product.sku)
  IN IF sku \notin DOMAIN map
     THEN [rows |-> Append(acc.rows, AbsentResult(product)),
           counts |-> [acc.counts EXCEPT !.missingInAvalara = @ + 1]]
     ELSE LET item == map[sku]
              missing == MissingFields(item)
          IN IF Len(missing) > 0
             THEN [rows |-> Append(acc.rows, IncompleteResult(product, item, missing)),
                   counts |-> [acc.counts EXCEPT !.missingData = @ + 1]]
             ELSE [rows |-> Append(acc.rows, IncompleteResult(product, item, missing)),
                   counts |-> [acc.counts EXCEPT !.complete = @ + 1]]

\* The body of bcProducts.forEach for one product.
Compare(acc, product, map) ==
  LET sku == Normalize(product.sku)
  IN IF sku \notin DOMAIN map
     THEN [rows |-> Append(acc.rows, AbsentResult(product)),
           counts |-> [acc.counts EXCEPT !.missingInAvalara = @ + 1]]
     ELSE LET item == map[sku]
              missing == MissingFields(item)
          IN IF Len(missing) > 0
             THEN [rows |-> Append(acc.rows, IncompleteResult(product, item, missing)),
                   counts |-> [acc.counts EXCEPT !.missingData = @ + 1]]
             ELSE [rows |-> acc.rows,
                   counts |-> [acc.counts EXCEPT !.complete = @ + 1]]

\* bcProducts.forEach over the first n products.
RECURSIVE CompareAll(_, _, _)
CompareAll(products, map, n) ==
  IF n = 0 THEN [rows |-> <<>>, counts |-> NoCounts]
  ELSE Compare(CompareAll(products, map, n - 1), products[n], map)

\* Variant: only the registry file is checked.
MissingFileAvalaraOnly(avalaraExists, bcExists) ==
  IF ~avalaraExists THEN "avalara-items.csv" ELSE "none"

\* The two fs.existsSync checks: the file the thrown error names.
MissingFile(avalaraExists, bcExists) ==
  IF ~avalaraExists THEN "avalara-items.csv"
  ELSE IF ~bcExists THEN "bc-products.csv"
  ELSE "none"

RecInit ==
  /\ avalaraFileExists \in BOOLEAN
  /\ bcFileExists \in BOOLEAN
  /\ avalaraItems \in (IF avalaraFileExists THEN SeqsUpTo(ItemRows, MaxItems) ELSE { <<>> })
  /\ bcProducts \in (IF bcFileExists THEN SeqsUpTo(ProductRows, MaxProducts) ELSE { <<>> })
  /\ recPc = "start"
  /\ recReads = <<>>
  /\ productsToUpdate = <<>>
  /\ recCounts = NoCounts
  /\ recOutFile = [written |-> FALSE, rows |-> <<>>]
  /\ recSummary = NoRecSummary
  /\ recThrown = << "" >>
  /\ recExit = -1

\* reconcileProducts up to the try block: the two file checks.
RecStart ==
  /\ recPc = "start"
  /\ LET missing == MissingFile(avalaraFileExists, bcFileExists)
     IN IF missing = "none"
        THEN recPc' = "read" /\ recThrown' = recThrown
        ELSE /\ recPc' = "rejected"
             /\ recThrown' = << (IF missing = "avalara-items.csv"
                                  THEN "Avalara items file not found"
                                  ELSE "BigCommerce products file not found"),
                                 " ./output/" \o missing >>
  /\ UNCHANGED << avalaraFileExists, bcFileExists, avalaraItems, bcProducts, recReads,
                  productsToUpdate, recCounts, recOutFile, recSummary, recExit,
                  updVars, pgVars, fetVars >>

\* Read both files, fill the map, compare every product, write the CSV.
Reconcile ==
  /\ recPc = "read"
  /\ LET avalaraMap == BuildMap(avalaraItems, Len(avalaraItems))
         done == CompareAll(bcProducts, avalaraMap, Len(bcProducts))
     IN /\ productsToUpdate' = done.rows
        /\ recCounts' = done.counts
        /\ recOutFile' = [written |-> TRUE, rows |-> done.rows]
  /\ recReads' = << "avalara-items.csv", "bc-products.csv" >>
  /\ recPc' = "summary"
  /\ UNCHANGED << avalaraFileExists, bcFileExists, avalaraItems, bcProducts, recSummary,
                  recThrown, recExit, updVars, pgVars, fetVars >>

\* The summary report and the return.
RecWriteSummary ==
  /\ recPc = "summary"
  /\ recSummary' = [written |-> TRUE, totalProducts |-> Len(bcProducts),
                    totalAvalaraItems |-> Len(avalaraItems), counts |-> recCounts,
                    productsToUpdate |-> Len(productsToUpdate)]
  /\ recPc' = "resolved"
  /\ UNCHANGED << avalaraFileExists, bcFileExists, avalaraItems, bcProducts, recReads,
                  productsToUpdate, recCounts, recOutFile, recThrown, recExit,
                  updVars, pgVars, fetVars >>

\* .then / .catch of the reconciler's main script
RecMain ==
  /\ recPc \in { "resolved", "rejected" }
  /\ recExit' = (IF recPc = "resolved" THEN 0 ELSE 1)
  /\ recPc' = "exit"
  /\ UNCHANGED << avalaraFileExists, bcFileExists, avalaraItems, bcProducts, recReads,
                  productsToUpdate, recCounts, recOutFile, recSummary, recThrown,
                  updVars, pgVars, fetVars >>

InitReconcile == UpdIdle /\ PgIdle /\ FetIdle /\ RecInit

NextReconcile ==
  \/ RecStart
  \/ Reconcile
  \/ RecWriteSummary
  \/ RecMain

SpecReconcile == InitReconcile /\ [][NextReconcile]_vars

\* Either stage run on its own: the Updater or the Reconciler.
InitStages == Init \/ InitReconcile

NextStages == Next \/ NextReconcile

SpecStages == InitStages /\ [][NextStages]_vars

\* ------------------------------------------------ properties of the Updater
LimitMessage == << "Maximum custom fields limit reached (50)" >>
ExistsMessage == << "Custom field already exists" >>

\* Requests of one kind the current invocation made for a row.
CurEvents(kind, row) ==
  { e \in DOMAIN events :
      events[e].kind = kind /\ events[e].run = run /\ events[e].row = row }

CurGets == { e \in DOMAIN events : events[e].kind = "get" /\ events[e].run = run }

CurPosts == { e \in DOMAIN events : events[e].kind = "post" /\ events[e].run = run }

Answered404(e) == events[e].response.hasResponse /\ events[e].response.status = "404"

InLoop == pc \in { "fetch", "create", "sleep" }

\* The loop has run to its end in this invocation.
LoopDone ==
  /\ Len(needing) >= 1
  /\ pc \in { "writeLog", "summary", "resolved", "rejected", "exit" }

\* The loop went on past row r: it is at a later row, or it has ended normally.
WentOn(r) == i > r /\ (i <= Len(needing) => InLoop) /\ (i > Len(needing) => LoopDone)

C2_ZeroExitAfterLoggedFailures ==
  ( /\ pc = "exit"
    /\ Len(needing) >= 1
    /\ Len(syncLog) = Len(needing)
    /\ logFile = [written |-> TRUE, rows |-> syncLog] )
    => exitCode = 0

\* C3: after the loop the Updater ends having written both the outcome log
\* and the summary with the counts and the error-type breakdown (each error
\* counted under the part of its message before the first colon).
C3_LogAndSummaryWritten ==
  (pc = "exit" /\ Len(needing) >= 1)
    => /\ logFile = [written |-> TRUE, rows |-> syncLog]
       /\ summaryFile.written
       /\ summaryFile.success = successCount
       /\ summaryFile.errors = errorCount
       /\ summaryFile.skipped = skippedCount
       /\ summaryFile.breakdown = ErrorBreakdown(syncLog).counts

\* C4: the fetch of a row is directly preceded by the sleep(100) of the row
\* before it whenever that row ended success or skipped.
C4_DelayAfterSuccessOrSkipped ==
  \A e \in CurGets :
    LET r == events[e].row
    IN (r > 1 /\ syncLog[r - 1].status \in { "success", "skipped" })
         => /\ events[e - 1].kind = "sleep"
            /\ events[e - 1].row = r - 1
            /\ events[e - 1].arg = SleepMs

\* C5: a fetched list of 50 or more entries without the marker is recorded
\* status=error, custom_field_added=no, with the ceiling message; no create
\* call is issued for the row and the loop goes on to the next product.
C5_CeilingIsErrorWithoutCreate ==
  \A e \in CurGets :
    LET r == events[e].row
        f == events[e].fields
    IN (FieldCount(f) >= 50 /\ f[SyncFieldName] = 0)
         => /\ Len(syncLog) >= r
            /\ syncLog[r] = LogEntry(needing[r], "error", LimitMessage, "no")
            /\ CurEvents("post", r) = {}
            /\ WentOn(r)

C5_Witness ==
  \E e \in CurGets :
    /\ FieldCount(events[e].fields) >= 50
    /\ events[e].fields[SyncFieldName] = 0
    /\ events[e].row < Len(needing)
    /\ Len(syncLog) > events[e].row
    /\ syncLog[events[e].row].status = "error"

\* C6: a fetched list holding a field named exactly as the marker is recorded
\* status=skipped, custom_field_added=no, with no create call, also when the
\* list has 50 or more entries (the marker check comes before the ceiling).
C6_MarkerIsSkippedBeforeCeiling ==
  \A e \in CurGets :
    LET r == events[e].row
        f == events[e].fields
    IN f[SyncFieldName] > 0
         => /\ Len(syncLog) >= r
            /\ syncLog[r] = LogEntry(needing[r], "skipped", ExistsMessage, "no")
            /\ CurEvents("post", r) = {}

C6_Witness ==
  \E e \in CurGets :
    /\ events[e].fields[SyncFieldName] > 0
    /\ FieldCount(events[e].fields) >= 50
    /\ syncLog[events[e].row].status = "skipped"

\* C7: a fetch answered 404 counts as an empty list: the create call with
\* value "1" follows and the row is success if that call succeeds. Any other
\* fetch failure is recorded status=error with no create call.
C7_NotFoundIsEmptyList ==
  \A e \in CurGets :
    LET r == events[e].row
        posts == CurEvents("post", r)
    IN /\ Answered404(e) =>
            /\ events[e].fields = EmptyFields
            /\ IF Len(syncLog) < r
               THEN pc = "create" /\ i = r /\ posts = {}
               ELSE /\ posts # {}
                    /\ \A q \in posts :
                         /\ q > e
                         /\ events[q].arg = << SyncFieldName, "1" >>
                         /\ (events[q].response = NoError
                               => syncLog[r] = LogEntry(needing[r], "success", << "" >>, "yes"))
       /\ (events[e].response # NoError /\ ~Answered404(e)) =>
            /\ Len(syncLog) >= r
            /\ syncLog[r] = LogEntry(needing[r], "error",
                                     ErrorMessage(events[e].response), "no")
            /\ posts = {}

C7_Witness ==
  \E e \in CurGets :
    /\ Answered404(e)
    /\ Len(syncLog) >= events[e].row
    /\ syncLog[events[e].row].status = "success"

\* C8: a per-record failure never aborts the loop: every flagged row is
\* fetched, and when the loop ends the log holds one entry per flagged row,
\* in input order, each success, skipped or error, the three counts adding up
\* to the number of flagged rows.
C8_OneEntryPerFlaggedRow ==
  /\ InLoop => (i \in 1..Len(needing) /\ Len(syncLog) = (IF pc = "sleep" THEN i ELSE i - 1))
  /\ LoopDone =>
       /\ Len(syncLog) = Len(needing)
       /\ \A k \in 1..Len(needing) :
            /\ syncLog[k].product_id = needing[k].product_id
            /\ syncLog[k].sku = needing[k].sku
            /\ syncLog[k].status \in { "success", "skipped", "error" }
            /\ CurEvents("get", k) # {}
       /\ successCount = Cardinality({ k \in 1..Len(syncLog) : syncLog[k].status = "success" })
       /\ errorCount = Cardinality({ k \in 1..Len(syncLog) : syncLog[k].status = "error" })
       /\ skippedCount = Cardinality({ k \in 1..Len(syncLog) : syncLog[k].status = "skipped" })
       /\ successCount + errorCount + skippedCount = Len(needing)

C8_Witness ==
  /\ LoopDone
  /\ Len(needing) >= 2
  /\ syncLog[1].status = "error"
  /\ Len(syncLog) = Len(needing)

\* C9: within one run each flagged row gets at most one attribute fetch and
\* at most one create call, and a create call only after the row's fetch
\* returned a list (or not-found) without the marker and under 50 entries.
C9_NoRetries ==
  /\ \A k \in 1..Len(needing) :
       /\ Cardinality(CurEvents("get", k)) <= 1
       /\ Cardinality(CurEvents("post", k)) <= 1
  /\ \A q \in CurPosts :
       \E e \in CurEvents("get", events[q].row) :
         /\ e < q
         /\ (events[e].response = NoError \/ Answered404(e))
         /\ events[e].fields[SyncFieldName] = 0
         /\ FieldCount(events[e].fields) < 50

C9_Witness ==
  /\ LoopDone
  /\ \E k \in 1..Len(needing) :
       /\ syncLog[k].status = "error"
       /\ Cardinality(CurEvents("post", k)) = 1
  /\ \E k \in 1..Len(needing) :
       /\ syncLog[k].status = "error"
       /\ CurEvents("post", k) = {}

\* --------------------------------------------- properties of the pagination
\* C10: requests go out at skip 0, 100, 200, ... with $top=100 (registry) or
\* at page 1, 2, 3, ... with limit=250 (catalog); a page shorter than the
\* requested size (an empty one included) is the last request issued, and
\* after a full page the loop stands at the next offset/page, not finished.
C10_ShortPageEndsPagination ==
  pgApi # "none" =>
    LET size == IF pgApi = "avalara" THEN 100 ELSE 250
        cursor(k) == IF pgApi = "avalara" THEN 100 * (k - 1) ELSE k
        n == Len(pgRequests)
    IN /\ Len(pgPages) = n
       /\ \A k \in 1..n : pgRequests[k] = [cursor |-> cursor(k), size |-> size]
       /\ \A k \in 1..(n - 1) : pgPages[k] >= size
       /\ pgDone <=> (n >= 1 /\ pgPages[n] < size)
       /\ ~pgDone => pgPos = cursor(n + 1)

C10_Witness ==
  /\ pgDone
  /\ Len(pgPages) >= 3
  /\ pgPages[1] = (IF pgApi = "avalara" THEN 100 ELSE 250)
  /\ pgPages[Len(pgPages)] = 0

\* ----------------------------------------------- properties of the fetchers
\* The records of the first n responses, in fetch order.
RECURSIVE RecordsOfPages(_)
RecordsOfPages(n) ==
  IF n = 0 THEN <<>>
  ELSE RecordsOfPages(n - 1) \o [ j \in 1..pgPages[n] |-> << n, j >> ]

PageFailed == pgPages # <<>> /\ pgPages[Len(pgPages)] = -1

\* A raw SKU that is absent, not a string, empty or whitespace-only.
BlankSku(v) == v.type # "string" \/ \A c \in 1..Len(v.chars) : IsSpace(v.chars[c])

RawSkuOk(product) == ~BlankSku(product.sku)
RawSkuBlank(product) == BlankSku(product.sku)

\* The mapped row of a fetched record.
RowOf(rec) ==
  IF pgApi = "avalara" THEN ProcessItem(RawItem(rec)) ELSE ProcessProduct(RawProduct(rec))

\* Once the k-th request has failed no request is repeated or added.
NoRequestAfterFailure ==
  PageFailed =>
    /\ pgDone
    /\ Len(pgRequests) = Len(pgPages)
    /\ \A m \in 1..(Len(pgPages) - 1) : pgPages[m] # -1
    /\ \A m, n \in 1..Len(pgRequests) : m # n => pgRequests[m] # pgRequests[n]

\* C11 (as stated): when the k-th page request fails the loop ends with no
\* repeated or later request, and the fetcher writes a file holding exactly
\* the records of pages 1..k-1 in fetch order and completes without error.
C11_PartialResultsWritten ==
  /\ NoRequestAfterFailure
  /\ (PageFailed /\ fetPc = "exit") =>
       LET recs == RecordsOfPages(Len(pgPages) - 1)
       IN /\ fetExit = 0
          /\ outFile.written
          /\ outFile.rows = [ n \in 1..Len(recs) |-> RowOf(recs[n]) ]

\* C11 (amended): as above, the file of the Registry Fetcher holding every
\* record of pages 1..k-1 and the file of the Catalog Fetcher those records
\* of pages 1..k-1 that have a valid SKU, in fetch order.
C11_PartialValidResultsWritten ==
  /\ NoRequestAfterFailure
  /\ (PageFailed /\ fetPc = "exit") =>
       LET recs == RecordsOfPages(Len(pgPages) - 1)
           raws == [ n \in 1..Len(recs) |-> RawProduct(recs[n]) ]
           kept == SelectSeq(raws, RawSkuOk)
       IN /\ fetExit = 0
          /\ outFile.written
          /\ IF pgApi = "avalara"
             THEN outFile.rows = [ n \in 1..Len(recs) |-> ProcessItem(RawItem(recs[n])) ]
             ELSE outFile.rows = [ n \in 1..Len(kept) |-> ProcessProduct(kept[n]) ]

C11_Witness ==
  /\ PageFailed
  /\ Len(pgPages) >= 2
  /\ fetPc = "exit"
  /\ fetExit = 0
  /\ outFile.written
  /\ outFile.rows # <<>>

\* C12: the Catalog Fetcher puts every fetched product in exactly one of
\* valid and invalid: a product whose SKU is absent, not a string, empty or
\* whitespace-only is counted invalid and is not written, every other product
\* is written, in fetch order, and the run does not fail.
C12_InvalidSkuNeverWritten ==
  (pgApi = "bigcommerce" /\ fetPc \in { "resolved", "exit" }) =>
    LET raws == [ n \in 1..Len(pgAll) |-> RawProduct(pgAll[n]) ]
        good == SelectSeq(raws, RawSkuOk)
        bad == SelectSeq(raws, RawSkuBlank)
    IN /\ outFile.written
       /\ outFile.rows = [ n \in 1..Len(good) |-> ProcessProduct(good[n]) ]
       /\ invalidProducts = [ n \in 1..Len(bad) |-> ProcessProduct(bad[n]) ]
       /\ Len(outFile.rows) + Len(invalidProducts) = Len(pgAll)
       /\ \A n \in 1..Len(outFile.rows) :
            /\ outFile.rows[n].sku.type = "string"
            /\ \E c \in 1..Len(outFile.rows[n].sku.chars) :
                 ~IsSpace(outFile.rows[n].sku.chars[c])
       /\ fetPc = "exit" => fetExit = 0

C12_Witness ==
  /\ pgApi = "bigcommerce"
  /\ fetPc = "exit"
  /\ fetExit = 0
  /\ \E n \in 1..Len(invalidProducts) : invalidProducts[n].sku = Str(<< " " >>)
  /\ \E n \in 1..Len(outFile.rows) : outFile.rows[n].sku = Str(<< " ", "A", " " >>)

\* --------------------------------------------- properties of the Reconciler
SkuOne == << "s", "k", "u", "1" >>
RegistryComplete == Item(SkuOne, << "G" >>, << "C" >>)
RegistryWidgets ==
  Item(<< " ", "S", "K", "U", "1", " " >>, << "W", "i", "d", "g", "e", "t", "s" >>, <<>>)
RegistryAbc == Item(<< "a", "b", "c", "-", "1" >>, <<>>, <<>>)
CatalogOne == Product(1, << "S", "K", "U", "1" >>)
CatalogTwo == Product(2, << "S", "K", "U", "2" >>)
CatalogAbc == Product(3, << " ", "A", "B", "C", "-", "1", " " >>)

\* Registry rows whose trimmed, lower-cased code is that of the SKU.
MatchesOf(sku) ==
  { k \in 1..Len(avalaraItems) :
      Normalize(avalaraItems[k].itemCode) = Normalize(sku) }

\* The last of them in registry input order.
LastMatchOf(sku) ==
  avalaraItems[CHOOSE k \in MatchesOf(sku) : \A m \in MatchesOf(sku) : m <= k]

BlankAfterTrim(value) == \A c \in 1..Len(value) : IsSpace(value[c])

BlankFieldsOf(item) ==
  (IF BlankAfterTrim(item.itemGroup) THEN << "itemGroup" >> ELSE <<>>) \o
  (IF BlankAfterTrim(item.category) THEN << "category" >> ELSE <<>>)

\* Absent from the lookup, or present with a blank group or category.
ShouldBeFlagged(product) ==
  \/ MatchesOf(product.sku) = {}
  \/ BlankFieldsOf(LastMatchOf(product.sku)) # <<>>

RowsOf(product) ==
  { n \in 1..Len(recOutFile.rows) :
      /\ recOutFile.rows[n].product_id = product.id
      /\ recOutFile.rows[n].sku = product.sku }

\* C13: the output holds a row for exactly the catalog rows that are absent
\* from the lookup or present with a blank-after-trim group or category, one
\* row each, in catalog order; complete products are left out. Registry
\* [{sku1,G,C}] and catalog [{1,SKU1},{2,SKU2}] give the single row
\* product_id=2, exists_in_avalara=no.
C13_OutputIsFlaggedInOrder ==
  recOutFile.written =>
    LET flagged == SelectSeq(bcProducts, ShouldBeFlagged)
        rows == recOutFile.rows
    IN /\ Len(rows) = Len(flagged)
       /\ \A n \in 1..Len(rows) :
            /\ rows[n].product_id = flagged[n].id
            /\ rows[n].sku = flagged[n].sku
            /\ rows[n].name = flagged[n].name
       /\ recCounts.complete = Len(bcProducts) - Len(flagged)
       /\ (avalaraItems = << RegistryComplete >> /\ bcProducts = << CatalogOne, CatalogTwo >>)
            => /\ Len(rows) = 1
               /\ rows[1].product_id = 2
               /\ rows[1].exists_in_avalara = "no"

C13_Witness ==
  /\ recOutFile.written
  /\ avalaraItems = << RegistryComplete >>
  /\ bcProducts = << CatalogOne, CatalogTwo >>
  /\ Len(recOutFile.rows) = 1

\* C14: in every output row exists_in_avalara=no goes with is_missing_data=no
\* and empty missing_fields; exists_in_avalara=yes goes with
\* is_missing_data=yes and missing_fields being exactly the blank-after-trim
\* group/category fields of the matched item, which the reason names
\* (group "Widgets", category "" gives [category]).
C14_FlagsConsistent ==
  \A n \in 1..Len(recOutFile.rows) :
    LET row == recOutFile.rows[n]
    IN /\ row.exists_in_avalara \in { "yes", "no" }
       /\ row.exists_in_avalara = "no" =>
            /\ row.is_missing_data = "no"
            /\ row.missing_fields = <<>>
       /\ row.exists_in_avalara = "yes" =>
            /\ row.is_missing_data = "yes"
            /\ MatchesOf(row.sku) # {}
            /\ row.missing_fields = BlankFieldsOf(LastMatchOf(row.sku))
            /\ row.missing_fields # <<>>
            /\ \A f \in 1..Len(row.missing_fields) :
                 \E w \in 1..Len(row.reason) : row.reason[w] = row.missing_fields[f]
            /\ LastMatchOf(row.sku) = RegistryWidgets => row.missing_fields = << "category" >>

C14_Witness ==
  /\ \E n \in 1..Len(recOutFile.rows) :
       /\ recOutFile.rows[n].exists_in_avalara = "yes"
       /\ recOutFile.rows[n].avalara_item_group = RegistryWidgets.itemGroup
       /\ recOutFile.rows[n].missing_fields = << "category" >>
  /\ \E n \in 1..Len(recOutFile.rows) : recOutFile.rows[n].exists_in_avalara = "no"

\* C15: a product is treated as existing in the registry (a row with
\* exists_in_avalara=yes, or no row at all) exactly when the trimmed,
\* lower-cased SKU equals the trimmed, lower-cased code of some registry
\* item; " ABC-1 " matches "abc-1".
C15_MatchIsTrimmedCaseInsensitive ==
  recOutFile.written =>
    /\ \A p \in 1..Len(bcProducts) :
         LET product == bcProducts[p]
             absent == \E n \in RowsOf(product) :
                         recOutFile.rows[n].exists_in_avalara = "no"
             present == \A n \in RowsOf(product) :
                          recOutFile.rows[n].exists_in_avalara = "yes"
         IN /\ (MatchesOf(product.sku) # {}) <=> ~absent
            /\ (MatchesOf(product.sku) # {}) <=> present
    /\ recCounts.missingInAvalara =
         Cardinality({ p \in 1..Len(bcProducts) : MatchesOf(bcProducts[p].sku) = {} })

C15_Witness ==
  /\ recOutFile.written
  /\ \E k \in 1..Len(avalaraItems) : avalaraItems[k] = RegistryAbc
  /\ \E n \in RowsOf(CatalogAbc) : recOutFile.rows[n].exists_in_avalara = "yes"

\* C16: with a fetcher output file missing the Reconciler fails with an
\* error naming a missing file, having read no input and written neither
\* products-to-update.csv nor its summary; with products-to-update.csv
\* missing the Updater fails with an error naming it, having issued no
\* request and written no sync log.
C16_MissingFileIsFatal ==
  /\ (recPc # "idle" /\ (~avalaraFileExists \/ ~bcFileExists)) =>
       /\ recPc \in { "start", "rejected", "exit" }
       /\ recReads = <<>>
       /\ ~recOutFile.written
       /\ ~recSummary.written
       /\ recPc \in { "rejected", "exit" } =>
            \/ ~avalaraFileExists /\ recThrown = << "Avalara items file not found",
                                                   " ./output/avalara-items.csv" >>
            \/ ~bcFileExists /\ recThrown = << "BigCommerce products file not found",
                                              " ./output/bc-products.csv" >>
       /\ recPc = "exit" => recExit = 1
  /\ (pc # "idle" /\ ~fileExists) =>
       /\ pc \in { "start", "rejected", "exit" }
       /\ events = <<>>
       /\ ~logFile.written
       /\ ~summaryFile.written
       /\ pc \in { "rejected", "exit" } =>
            thrown = << "Products to update file not found",
                        " ./output/products-to-update.csv. Please run reconcile-products.js first." >>
       /\ pc = "exit" => exitCode = 1

C16_Witness ==
  /\ recPc = "exit"
  /\ avalaraFileExists
  /\ ~bcFileExists
  /\ recExit = 1
  /\ recThrown[1] = "BigCommerce products file not found"

\* C17: when several registry items share a normalized code, a product with
\* that normalized SKU is classified by the last of them in registry order:
\* it is flagged exactly when that last item lacks a field, and its row
\* carries the last item's group and category.
C17_LastDuplicateWins ==
  recOutFile.written =>
    \A p \in 1..Len(bcProducts) :
      LET product == bcProducts[p]
      IN Cardinality(MatchesOf(product.sku)) >= 2 =>
           LET last == LastMatchOf(product.sku)
           IN /\ (RowsOf(product) # {}) <=> (BlankFieldsOf(last) # <<>>)
              /\ \A n \in RowsOf(product) :
                   /\ recOutFile.rows[n].avalara_item_group = last.itemGroup
                   /\ recOutFile.rows[n].avalara_category = last.category
                   /\ recOutFile.rows[n].missing_fields = BlankFieldsOf(last)

C17_Witness ==
  /\ recOutFile.written
  /\ avalaraItems = << RegistryComplete, RegistryWidgets >>
  /\ \E n \in RowsOf(CatalogOne) : recOutFile.rows[n].missing_fields = << "category" >>

====
